---------------------------- MODULE Spec2Model ----------------------------
(***************************************************************************)
(* A model of anonymization_verification.conjugations: the pronoun         *)
(* catalog PRONOUNS, the sentence splitter _split_by_sentences, the        *)
(* subject/verb extractor _detect_subject_and_verb and the validator       *)
(* find_faulty_conjugation.                                                *)
(*                                                                         *)
(* A Python str is modelled as a sequence of characters, so that           *)
(* lowercasing, splitting and substring tests are computed character by    *)
(* character as the code computes them.                                    *)
(***************************************************************************)
EXTENDS Integers, Sequences, FiniteSets, TLC

VARIABLES
    PRONOUNS,      \* the module-level set PRONOUNS
    text,          \* the argument of the running (or last) call
    pc,            \* "idle", "loop", "returned", "raised", "split", "detected"
    sentences,     \* the local list `sentences`
    idx,           \* 1-based position of the for-loop over `sentences`
    faulty,        \* the local set `faulty_conjugations`
    outcome,       \* what the last finished call gave back
    calls,         \* number of find_faulty_conjugation calls started
    firstText,     \* argument of the first finished call
    firstOutcome   \* outcome of the first finished call

vars == <<PRONOUNS, text, pc, sentences, idx, faulty, outcome, calls,
          firstText, firstOutcome>>

-----------------------------------------------------------------------------
(* Bounds of the model. *)

\* longest character text given to _split_by_sentences on its own
MaxTextLen == 5
\* most whitespace-separated words of a sentence given to the extractor
MaxSentenceWords == 3
\* most words of a text given to find_faulty_conjugation
MaxWords == 4
\* most words of a text in a sequence of repeated calls
MaxRepeatWords == 2
\* most calls in a sequence of repeated calls
MaxCalls == 3

-----------------------------------------------------------------------------
(* Characters and strings. *)

\* A character is its Unicode code point, a number in 0..1114111, and a str
\* is a sequence of code points.  Ord and Str give the code points of text
\* written with one-character strings.

\* the characters with code points 32 to 126; the grave accent (96), which a
\* TLA+ string cannot hold, is left as an empty string
PrintableAscii ==
    <<" ","!","\"","#","$","%","&","'","(",")","*","+",",","-",".","/",
      "0","1","2","3","4","5","6","7","8","9",":",";","<","=",">","?",
      "@","A","B","C","D","E","F","G","H","I","J","K","L","M","N","O",
      "P","Q","R","S","T","U","V","W","X","Y","Z","[","\\","]","^","_",
      "","a","b","c","d","e","f","g","h","i","j","k","l","m","n","o",
      "p","q","r","s","t","u","v","w","x","y","z","{","|","}","~">>

\* ord(c) for a printable ASCII character or a newline
Ord(c) ==
    IF c = "\n" THEN 10
    ELSE 31 + CHOOSE i \in 1..Len(PrintableAscii) : PrintableAscii[i] = c

\* the str written as a tuple of one-character strings
Str(s) == [i \in 1..Len(s) |-> Ord(s[i])]

Dot == Ord(".")
QuestionMark == Ord("?")
Newline == Ord("\n")
Space == Ord(" ")
Slash == Ord("/")

\* regex class [A-Z]
UpperChars == Ord("A")..Ord("Z")
\* regex class [a-z]
LowerChars == Ord("a")..Ord("z")

\* c lies in one of the ranges <<first, last>> of R
InRanges(c, R) == \E k \in 1..Len(R) : R[k][1] <= c /\ c <= R[k][2]

\* The code points with str.isalnum(), and "_" (95), as ranges.
WordRanges ==
    <<
      <<48,57>>, <<65,90>>, <<95,95>>, <<97,122>>, <<170,170>>,
      <<178,179>>, <<181,181>>, <<185,186>>, <<188,190>>, <<192,214>>,
      <<216,246>>, <<248,705>>, <<710,721>>, <<736,740>>, <<748,748>>,
      <<750,750>>, <<880,884>>, <<886,887>>, <<890,893>>, <<895,895>>,
      <<902,902>>, <<904,906>>, <<908,908>>, <<910,929>>, <<931,1013>>,
      <<1015,1153>>, <<1162,1327>>, <<1329,1366>>, <<1369,1369>>, <<1376,1416>>,
      <<1488,1514>>, <<1519,1522>>, <<1568,1610>>, <<1632,1641>>, <<1646,1647>>,
      <<1649,1747>>, <<1749,1749>>, <<1765,1766>>, <<1774,1788>>, <<1791,1791>>,
      <<1808,1808>>, <<1810,1839>>, <<1869,1957>>, <<1969,1969>>, <<1984,2026>>,
      <<2036,2037>>, <<2042,2042>>, <<2048,2069>>, <<2074,2074>>, <<2084,2084>>,
      <<2088,2088>>, <<2112,2136>>, <<2144,2154>>, <<2160,2183>>, <<2185,2190>>,
      <<2208,2249>>, <<2308,2361>>, <<2365,2365>>, <<2384,2384>>, <<2392,2401>>,
      <<2406,2415>>, <<2417,2432>>, <<2437,2444>>, <<2447,2448>>, <<2451,2472>>,
      <<2474,2480>>, <<2482,2482>>, <<2486,2489>>, <<2493,2493>>, <<2510,2510>>,
      <<2524,2525>>, <<2527,2529>>, <<2534,2545>>, <<2548,2553>>, <<2556,2556>>,
      <<2565,2570>>, <<2575,2576>>, <<2579,2600>>, <<2602,2608>>, <<2610,2611>>,
      <<2613,2614>>, <<2616,2617>>, <<2649,2652>>, <<2654,2654>>, <<2662,2671>>,
      <<2674,2676>>, <<2693,2701>>, <<2703,2705>>, <<2707,2728>>, <<2730,2736>>,
      <<2738,2739>>, <<2741,2745>>, <<2749,2749>>, <<2768,2768>>, <<2784,2785>>,
      <<2790,2799>>, <<2809,2809>>, <<2821,2828>>, <<2831,2832>>, <<2835,2856>>,
      <<2858,2864>>, <<2866,2867>>, <<2869,2873>>, <<2877,2877>>, <<2908,2909>>,
      <<2911,2913>>, <<2918,2927>>, <<2929,2935>>, <<2947,2947>>, <<2949,2954>>,
      <<2958,2960>>, <<2962,2965>>, <<2969,2970>>, <<2972,2972>>, <<2974,2975>>,
      <<2979,2980>>, <<2984,2986>>, <<2990,3001>>, <<3024,3024>>, <<3046,3058>>,
      <<3077,3084>>, <<3086,3088>>, <<3090,3112>>, <<3114,3129>>, <<3133,3133>>,
      <<3160,3162>>, <<3165,3165>>, <<3168,3169>>, <<3174,3183>>, <<3192,3198>>,
      <<3200,3200>>, <<3205,3212>>, <<3214,3216>>, <<3218,3240>>, <<3242,3251>>,
      <<3253,3257>>, <<3261,3261>>, <<3293,3294>>, <<3296,3297>>, <<3302,3311>>,
      <<3313,3314>>, <<3332,3340>>, <<3342,3344>>, <<3346,3386>>, <<3389,3389>>,
      <<3406,3406>>, <<3412,3414>>, <<3416,3425>>, <<3430,3448>>, <<3450,3455>>,
      <<3461,3478>>, <<3482,3505>>, <<3507,3515>>, <<3517,3517>>, <<3520,3526>>,
      <<3558,3567>>, <<3585,3632>>, <<3634,3635>>, <<3648,3654>>, <<3664,3673>>,
      <<3713,3714>>, <<3716,3716>>, <<3718,3722>>, <<3724,3747>>, <<3749,3749>>,
      <<3751,3760>>, <<3762,3763>>, <<3773,3773>>, <<3776,3780>>, <<3782,3782>>,
      <<3792,3801>>, <<3804,3807>>, <<3840,3840>>, <<3872,3891>>, <<3904,3911>>,
      <<3913,3948>>, <<3976,3980>>, <<4096,4138>>, <<4159,4169>>, <<4176,4181>>,
      <<4186,4189>>, <<4193,4193>>, <<4197,4198>>, <<4206,4208>>, <<4213,4225>>,
      <<4238,4238>>, <<4240,4249>>, <<4256,4293>>, <<4295,4295>>, <<4301,4301>>,
      <<4304,4346>>, <<4348,4680>>, <<4682,4685>>, <<4688,4694>>, <<4696,4696>>,
      <<4698,4701>>, <<4704,4744>>, <<4746,4749>>, <<4752,4784>>, <<4786,4789>>,
      <<4792,4798>>, <<4800,4800>>, <<4802,4805>>, <<4808,4822>>, <<4824,4880>>,
      <<4882,4885>>, <<4888,4954>>, <<4969,4988>>, <<4992,5007>>, <<5024,5109>>,
      <<5112,5117>>, <<5121,5740>>, <<5743,5759>>, <<5761,5786>>, <<5792,5866>>,
      <<5870,5880>>, <<5888,5905>>, <<5919,5937>>, <<5952,5969>>, <<5984,5996>>,
      <<5998,6000>>, <<6016,6067>>, <<6103,6103>>, <<6108,6108>>, <<6112,6121>>,
      <<6128,6137>>, <<6160,6169>>, <<6176,6264>>, <<6272,6276>>, <<6279,6312>>,
      <<6314,6314>>, <<6320,6389>>, <<6400,6430>>, <<6470,6509>>, <<6512,6516>>,
      <<6528,6571>>, <<6576,6601>>, <<6608,6618>>, <<6656,6678>>, <<6688,6740>>,
      <<6784,6793>>, <<6800,6809>>, <<6823,6823>>, <<6917,6963>>, <<6981,6988>>,
      <<6992,7001>>, <<7043,7072>>, <<7086,7141>>, <<7168,7203>>, <<7232,7241>>,
      <<7245,7293>>, <<7296,7304>>, <<7312,7354>>, <<7357,7359>>, <<7401,7404>>,
      <<7406,7411>>, <<7413,7414>>, <<7418,7418>>, <<7424,7615>>, <<7680,7957>>,
      <<7960,7965>>, <<7968,8005>>, <<8008,8013>>, <<8016,8023>>, <<8025,8025>>,
      <<8027,8027>>, <<8029,8029>>, <<8031,8061>>, <<8064,8116>>, <<8118,8124>>,
      <<8126,8126>>, <<8130,8132>>, <<8134,8140>>, <<8144,8147>>, <<8150,8155>>,
      <<8160,8172>>, <<8178,8180>>, <<8182,8188>>, <<8304,8305>>, <<8308,8313>>,
      <<8319,8329>>, <<8336,8348>>, <<8450,8450>>, <<8455,8455>>, <<8458,8467>>,
      <<8469,8469>>, <<8473,8477>>, <<8484,8484>>, <<8486,8486>>, <<8488,8488>>,
      <<8490,8493>>, <<8495,8505>>, <<8508,8511>>, <<8517,8521>>, <<8526,8526>>,
      <<8528,8585>>, <<9312,9371>>, <<9450,9471>>, <<10102,10131>>, <<11264,11492>>,
      <<11499,11502>>, <<11506,11507>>, <<11517,11517>>, <<11520,11557>>, <<11559,11559>>,
      <<11565,11565>>, <<11568,11623>>, <<11631,11631>>, <<11648,11670>>, <<11680,11686>>,
      <<11688,11694>>, <<11696,11702>>, <<11704,11710>>, <<11712,11718>>, <<11720,11726>>,
      <<11728,11734>>, <<11736,11742>>, <<11823,11823>>, <<12293,12295>>, <<12321,12329>>,
      <<12337,12341>>, <<12344,12348>>, <<12353,12438>>, <<12445,12447>>, <<12449,12538>>,
      <<12540,12543>>, <<12549,12591>>, <<12593,12686>>, <<12690,12693>>, <<12704,12735>>,
      <<12784,12799>>, <<12832,12841>>, <<12872,12879>>, <<12881,12895>>, <<12928,12937>>,
      <<12977,12991>>, <<13312,19903>>, <<19968,42124>>, <<42192,42237>>, <<42240,42508>>,
      <<42512,42539>>, <<42560,42606>>, <<42623,42653>>, <<42656,42735>>, <<42775,42783>>,
      <<42786,42888>>, <<42891,42954>>, <<42960,42961>>, <<42963,42963>>, <<42965,42969>>,
      <<42994,43009>>, <<43011,43013>>, <<43015,43018>>, <<43020,43042>>, <<43056,43061>>,
      <<43072,43123>>, <<43138,43187>>, <<43216,43225>>, <<43250,43255>>, <<43259,43259>>,
      <<43261,43262>>, <<43264,43301>>, <<43312,43334>>, <<43360,43388>>, <<43396,43442>>,
      <<43471,43481>>, <<43488,43492>>, <<43494,43518>>, <<43520,43560>>, <<43584,43586>>,
      <<43588,43595>>, <<43600,43609>>, <<43616,43638>>, <<43642,43642>>, <<43646,43695>>,
      <<43697,43697>>, <<43701,43702>>, <<43705,43709>>, <<43712,43712>>, <<43714,43714>>,
      <<43739,43741>>, <<43744,43754>>, <<43762,43764>>, <<43777,43782>>, <<43785,43790>>,
      <<43793,43798>>, <<43808,43814>>, <<43816,43822>>, <<43824,43866>>, <<43868,43881>>,
      <<43888,44002>>, <<44016,44025>>, <<44032,55203>>, <<55216,55238>>, <<55243,55291>>,
      <<63744,64109>>, <<64112,64217>>, <<64256,64262>>, <<64275,64279>>, <<64285,64285>>,
      <<64287,64296>>, <<64298,64310>>, <<64312,64316>>, <<64318,64318>>, <<64320,64321>>,
      <<64323,64324>>, <<64326,64433>>, <<64467,64829>>, <<64848,64911>>, <<64914,64967>>,
      <<65008,65019>>, <<65136,65140>>, <<65142,65276>>, <<65296,65305>>, <<65313,65338>>,
      <<65345,65370>>, <<65382,65470>>, <<65474,65479>>, <<65482,65487>>, <<65490,65495>>,
      <<65498,65500>>, <<65536,65547>>, <<65549,65574>>, <<65576,65594>>, <<65596,65597>>,
      <<65599,65613>>, <<65616,65629>>, <<65664,65786>>, <<65799,65843>>, <<65856,65912>>,
      <<65930,65931>>, <<66176,66204>>, <<66208,66256>>, <<66273,66299>>, <<66304,66339>>,
      <<66349,66378>>, <<66384,66421>>, <<66432,66461>>, <<66464,66499>>, <<66504,66511>>,
      <<66513,66517>>, <<66560,66717>>, <<66720,66729>>, <<66736,66771>>, <<66776,66811>>,
      <<66816,66855>>, <<66864,66915>>, <<66928,66938>>, <<66940,66954>>, <<66956,66962>>,
      <<66964,66965>>, <<66967,66977>>, <<66979,66993>>, <<66995,67001>>, <<67003,67004>>,
      <<67072,67382>>, <<67392,67413>>, <<67424,67431>>, <<67456,67461>>, <<67463,67504>>,
      <<67506,67514>>, <<67584,67589>>, <<67592,67592>>, <<67594,67637>>, <<67639,67640>>,
      <<67644,67644>>, <<67647,67669>>, <<67672,67702>>, <<67705,67742>>, <<67751,67759>>,
      <<67808,67826>>, <<67828,67829>>, <<67835,67867>>, <<67872,67897>>, <<67968,68023>>,
      <<68028,68047>>, <<68050,68096>>, <<68112,68115>>, <<68117,68119>>, <<68121,68149>>,
      <<68160,68168>>, <<68192,68222>>, <<68224,68255>>, <<68288,68295>>, <<68297,68324>>,
      <<68331,68335>>, <<68352,68405>>, <<68416,68437>>, <<68440,68466>>, <<68472,68497>>,
      <<68521,68527>>, <<68608,68680>>, <<68736,68786>>, <<68800,68850>>, <<68858,68899>>,
      <<68912,68921>>, <<69216,69246>>, <<69248,69289>>, <<69296,69297>>, <<69376,69415>>,
      <<69424,69445>>, <<69457,69460>>, <<69488,69505>>, <<69552,69579>>, <<69600,69622>>,
      <<69635,69687>>, <<69714,69743>>, <<69745,69746>>, <<69749,69749>>, <<69763,69807>>,
      <<69840,69864>>, <<69872,69881>>, <<69891,69926>>, <<69942,69951>>, <<69956,69956>>,
      <<69959,69959>>, <<69968,70002>>, <<70006,70006>>, <<70019,70066>>, <<70081,70084>>,
      <<70096,70106>>, <<70108,70108>>, <<70113,70132>>, <<70144,70161>>, <<70163,70187>>,
      <<70272,70278>>, <<70280,70280>>, <<70282,70285>>, <<70287,70301>>, <<70303,70312>>,
      <<70320,70366>>, <<70384,70393>>, <<70405,70412>>, <<70415,70416>>, <<70419,70440>>,
      <<70442,70448>>, <<70450,70451>>, <<70453,70457>>, <<70461,70461>>, <<70480,70480>>,
      <<70493,70497>>, <<70656,70708>>, <<70727,70730>>, <<70736,70745>>, <<70751,70753>>,
      <<70784,70831>>, <<70852,70853>>, <<70855,70855>>, <<70864,70873>>, <<71040,71086>>,
      <<71128,71131>>, <<71168,71215>>, <<71236,71236>>, <<71248,71257>>, <<71296,71338>>,
      <<71352,71352>>, <<71360,71369>>, <<71424,71450>>, <<71472,71483>>, <<71488,71494>>,
      <<71680,71723>>, <<71840,71922>>, <<71935,71942>>, <<71945,71945>>, <<71948,71955>>,
      <<71957,71958>>, <<71960,71983>>, <<71999,71999>>, <<72001,72001>>, <<72016,72025>>,
      <<72096,72103>>, <<72106,72144>>, <<72161,72161>>, <<72163,72163>>, <<72192,72192>>,
      <<72203,72242>>, <<72250,72250>>, <<72272,72272>>, <<72284,72329>>, <<72349,72349>>,
      <<72368,72440>>, <<72704,72712>>, <<72714,72750>>, <<72768,72768>>, <<72784,72812>>,
      <<72818,72847>>, <<72960,72966>>, <<72968,72969>>, <<72971,73008>>, <<73030,73030>>,
      <<73040,73049>>, <<73056,73061>>, <<73063,73064>>, <<73066,73097>>, <<73112,73112>>,
      <<73120,73129>>, <<73440,73458>>, <<73648,73648>>, <<73664,73684>>, <<73728,74649>>,
      <<74752,74862>>, <<74880,75075>>, <<77712,77808>>, <<77824,78894>>, <<82944,83526>>,
      <<92160,92728>>, <<92736,92766>>, <<92768,92777>>, <<92784,92862>>, <<92864,92873>>,
      <<92880,92909>>, <<92928,92975>>, <<92992,92995>>, <<93008,93017>>, <<93019,93025>>,
      <<93027,93047>>, <<93053,93071>>, <<93760,93846>>, <<93952,94026>>, <<94032,94032>>,
      <<94099,94111>>, <<94176,94177>>, <<94179,94179>>, <<94208,100343>>, <<100352,101589>>,
      <<101632,101640>>, <<110576,110579>>, <<110581,110587>>, <<110589,110590>>, <<110592,110882>>,
      <<110928,110930>>, <<110948,110951>>, <<110960,111355>>, <<113664,113770>>, <<113776,113788>>,
      <<113792,113800>>, <<113808,113817>>, <<119520,119539>>, <<119648,119672>>, <<119808,119892>>,
      <<119894,119964>>, <<119966,119967>>, <<119970,119970>>, <<119973,119974>>, <<119977,119980>>,
      <<119982,119993>>, <<119995,119995>>, <<119997,120003>>, <<120005,120069>>, <<120071,120074>>,
      <<120077,120084>>, <<120086,120092>>, <<120094,120121>>, <<120123,120126>>, <<120128,120132>>,
      <<120134,120134>>, <<120138,120144>>, <<120146,120485>>, <<120488,120512>>, <<120514,120538>>,
      <<120540,120570>>, <<120572,120596>>, <<120598,120628>>, <<120630,120654>>, <<120656,120686>>,
      <<120688,120712>>, <<120714,120744>>, <<120746,120770>>, <<120772,120779>>, <<120782,120831>>,
      <<122624,122654>>, <<123136,123180>>, <<123191,123197>>, <<123200,123209>>, <<123214,123214>>,
      <<123536,123565>>, <<123584,123627>>, <<123632,123641>>, <<124896,124902>>, <<124904,124907>>,
      <<124909,124910>>, <<124912,124926>>, <<124928,125124>>, <<125127,125135>>, <<125184,125251>>,
      <<125259,125259>>, <<125264,125273>>, <<126065,126123>>, <<126125,126127>>, <<126129,126132>>,
      <<126209,126253>>, <<126255,126269>>, <<126464,126467>>, <<126469,126495>>, <<126497,126498>>,
      <<126500,126500>>, <<126503,126503>>, <<126505,126514>>, <<126516,126519>>, <<126521,126521>>,
      <<126523,126523>>, <<126530,126530>>, <<126535,126535>>, <<126537,126537>>, <<126539,126539>>,
      <<126541,126543>>, <<126545,126546>>, <<126548,126548>>, <<126551,126551>>, <<126553,126553>>,
      <<126555,126555>>, <<126557,126557>>, <<126559,126559>>, <<126561,126562>>, <<126564,126564>>,
      <<126567,126570>>, <<126572,126578>>, <<126580,126583>>, <<126585,126588>>, <<126590,126590>>,
      <<126592,126601>>, <<126603,126619>>, <<126625,126627>>, <<126629,126633>>, <<126635,126651>>,
      <<127232,127244>>, <<130032,130041>>, <<131072,173791>>, <<173824,177976>>, <<177984,178205>>,
      <<178208,183969>>, <<183984,191456>>, <<194560,195101>>, <<196608,201546>>
    >>

\* regex \w of a str pattern: str.isalnum() or "_"
IsWordChar(c) == InRanges(c, WordRanges)

\* regex \s of a str pattern, and the separators of str.split(): every
\* character with str.isspace()
WhitespaceChars ==
    {9, 10, 11, 12, 13, 28, 29, 30, 31, 32, 133, 160, 5760,
     8192, 8193, 8194, 8195, 8196, 8197, 8198, 8199, 8200, 8201, 8202,
     8232, 8233, 8239, 8287, 12288}

IsSpace(c) == c \in WhitespaceChars

\* The code points above 127 that str.lower() maps to one other code point,
\* as runs <<first, last, step, offset>>: every step-th code point from first
\* to last is mapped to itself plus offset.  Capital sigma is not listed.
LowerRuns ==
    <<
      <<192,214,1,32>>, <<216,222,1,32>>, <<256,302,2,1>>,
      <<306,310,2,1>>, <<313,327,2,1>>, <<330,374,2,1>>,
      <<376,376,1,-121>>, <<377,381,2,1>>, <<385,385,1,210>>,
      <<386,388,2,1>>, <<390,390,1,206>>, <<391,391,1,1>>,
      <<393,394,1,205>>, <<395,395,1,1>>, <<398,398,1,79>>,
      <<399,399,1,202>>, <<400,400,1,203>>, <<401,401,1,1>>,
      <<403,403,1,205>>, <<404,404,1,207>>, <<406,406,1,211>>,
      <<407,407,1,209>>, <<408,408,1,1>>, <<412,412,1,211>>,
      <<413,413,1,213>>, <<415,415,1,214>>, <<416,420,2,1>>,
      <<422,422,1,218>>, <<423,423,1,1>>, <<425,425,1,218>>,
      <<428,428,1,1>>, <<430,430,1,218>>, <<431,431,1,1>>,
      <<433,434,1,217>>, <<435,437,2,1>>, <<439,439,1,219>>,
      <<440,440,1,1>>, <<444,444,1,1>>, <<452,452,1,2>>,
      <<453,453,1,1>>, <<455,455,1,2>>, <<456,456,1,1>>,
      <<458,458,1,2>>, <<459,475,2,1>>, <<478,494,2,1>>,
      <<497,497,1,2>>, <<498,500,2,1>>, <<502,502,1,-97>>,
      <<503,503,1,-56>>, <<504,542,2,1>>, <<544,544,1,-130>>,
      <<546,562,2,1>>, <<570,570,1,10795>>, <<571,571,1,1>>,
      <<573,573,1,-163>>, <<574,574,1,10792>>, <<577,577,1,1>>,
      <<579,579,1,-195>>, <<580,580,1,69>>, <<581,581,1,71>>,
      <<582,590,2,1>>, <<880,882,2,1>>, <<886,886,1,1>>,
      <<895,895,1,116>>, <<902,902,1,38>>, <<904,906,1,37>>,
      <<908,908,1,64>>, <<910,911,1,63>>, <<913,929,1,32>>,
      <<932,939,1,32>>, <<975,975,1,8>>, <<984,1006,2,1>>,
      <<1012,1012,1,-60>>, <<1015,1015,1,1>>, <<1017,1017,1,-7>>,
      <<1018,1018,1,1>>, <<1021,1023,1,-130>>, <<1024,1039,1,80>>,
      <<1040,1071,1,32>>, <<1120,1152,2,1>>, <<1162,1214,2,1>>,
      <<1216,1216,1,15>>, <<1217,1229,2,1>>, <<1232,1326,2,1>>,
      <<1329,1366,1,48>>, <<4256,4293,1,7264>>, <<4295,4295,1,7264>>,
      <<4301,4301,1,7264>>, <<5024,5103,1,38864>>, <<5104,5109,1,8>>,
      <<7312,7354,1,-3008>>, <<7357,7359,1,-3008>>, <<7680,7828,2,1>>,
      <<7838,7838,1,-7615>>, <<7840,7934,2,1>>, <<7944,7951,1,-8>>,
      <<7960,7965,1,-8>>, <<7976,7983,1,-8>>, <<7992,7999,1,-8>>,
      <<8008,8013,1,-8>>, <<8025,8031,2,-8>>, <<8040,8047,1,-8>>,
      <<8072,8079,1,-8>>, <<8088,8095,1,-8>>, <<8104,8111,1,-8>>,
      <<8120,8121,1,-8>>, <<8122,8123,1,-74>>, <<8124,8124,1,-9>>,
      <<8136,8139,1,-86>>, <<8140,8140,1,-9>>, <<8152,8153,1,-8>>,
      <<8154,8155,1,-100>>, <<8168,8169,1,-8>>, <<8170,8171,1,-112>>,
      <<8172,8172,1,-7>>, <<8184,8185,1,-128>>, <<8186,8187,1,-126>>,
      <<8188,8188,1,-9>>, <<8486,8486,1,-7517>>, <<8490,8490,1,-8383>>,
      <<8491,8491,1,-8262>>, <<8498,8498,1,28>>, <<8544,8559,1,16>>,
      <<8579,8579,1,1>>, <<9398,9423,1,26>>, <<11264,11311,1,48>>,
      <<11360,11360,1,1>>, <<11362,11362,1,-10743>>, <<11363,11363,1,-3814>>,
      <<11364,11364,1,-10727>>, <<11367,11371,2,1>>, <<11373,11373,1,-10780>>,
      <<11374,11374,1,-10749>>, <<11375,11375,1,-10783>>, <<11376,11376,1,-10782>>,
      <<11378,11378,1,1>>, <<11381,11381,1,1>>, <<11390,11391,1,-10815>>,
      <<11392,11490,2,1>>, <<11499,11501,2,1>>, <<11506,11506,1,1>>,
      <<42560,42604,2,1>>, <<42624,42650,2,1>>, <<42786,42798,2,1>>,
      <<42802,42862,2,1>>, <<42873,42875,2,1>>, <<42877,42877,1,-35332>>,
      <<42878,42886,2,1>>, <<42891,42891,1,1>>, <<42893,42893,1,-42280>>,
      <<42896,42898,2,1>>, <<42902,42920,2,1>>, <<42922,42922,1,-42308>>,
      <<42923,42923,1,-42319>>, <<42924,42924,1,-42315>>, <<42925,42925,1,-42305>>,
      <<42926,42926,1,-42308>>, <<42928,42928,1,-42258>>, <<42929,42929,1,-42282>>,
      <<42930,42930,1,-42261>>, <<42931,42931,1,928>>, <<42932,42946,2,1>>,
      <<42948,42948,1,-48>>, <<42949,42949,1,-42307>>, <<42950,42950,1,-35384>>,
      <<42951,42953,2,1>>, <<42960,42960,1,1>>, <<42966,42968,2,1>>,
      <<42997,42997,1,1>>, <<65313,65338,1,32>>, <<66560,66599,1,40>>,
      <<66736,66771,1,40>>, <<66928,66938,1,39>>, <<66940,66954,1,39>>,
      <<66956,66962,1,39>>, <<66964,66965,1,39>>, <<68736,68786,1,64>>,
      <<71840,71871,1,32>>, <<93760,93791,1,32>>, <<125184,125217,1,34>>
    >>

\* capital I with dot above: lower() gives two characters, "i" and the
\* combining dot above
CapitalIWithDot == 304
CombiningDot == 775

\* capital sigma: lower() gives the final small sigma at the end of a word
\* and the small sigma elsewhere
CapitalSigma == 931
FinalSmallSigma == 962
SmallSigma == 963

\* str.lower() on one character other than capital sigma: a str of one or two
\* characters
LowerChar(c) ==
    IF c < 128
    THEN (IF c \in UpperChars THEN <<c + (Ord("a") - Ord("A"))>> ELSE <<c>>)
    ELSE IF c = CapitalIWithDot
    THEN <<Ord("i"), CombiningDot>>
    ELSE IF \E k \in 1..Len(LowerRuns) :
                /\ LowerRuns[k][1] <= c /\ c <= LowerRuns[k][2]
                /\ (c - LowerRuns[k][1]) % LowerRuns[k][3] = 0
    THEN LET k == CHOOSE j \in 1..Len(LowerRuns) :
                      /\ LowerRuns[j][1] <= c /\ c <= LowerRuns[j][2]
                      /\ (c - LowerRuns[j][1]) % LowerRuns[j][3] = 0
         IN  <<c + LowerRuns[k][4]>>
    ELSE <<c>>

\* The code points with the Unicode property Case_Ignorable, as ranges.
CaseIgnorableRanges ==
    <<
      <<39,39>>, <<46,46>>, <<58,58>>, <<94,94>>, <<96,96>>,
      <<168,168>>, <<173,173>>, <<175,175>>, <<180,180>>, <<183,184>>,
      <<688,879>>, <<884,885>>, <<890,890>>, <<900,901>>, <<903,903>>,
      <<1155,1161>>, <<1369,1369>>, <<1375,1375>>, <<1425,1469>>, <<1471,1471>>,
      <<1473,1474>>, <<1476,1477>>, <<1479,1479>>, <<1524,1524>>, <<1536,1541>>,
      <<1552,1562>>, <<1564,1564>>, <<1600,1600>>, <<1611,1631>>, <<1648,1648>>,
      <<1750,1757>>, <<1759,1768>>, <<1770,1773>>, <<1807,1807>>, <<1809,1809>>,
      <<1840,1866>>, <<1958,1968>>, <<2027,2037>>, <<2042,2042>>, <<2045,2045>>,
      <<2070,2093>>, <<2137,2139>>, <<2184,2184>>, <<2192,2193>>, <<2200,2207>>,
      <<2249,2306>>, <<2362,2362>>, <<2364,2364>>, <<2369,2376>>, <<2381,2381>>,
      <<2385,2391>>, <<2402,2403>>, <<2417,2417>>, <<2433,2433>>, <<2492,2492>>,
      <<2497,2500>>, <<2509,2509>>, <<2530,2531>>, <<2558,2558>>, <<2561,2562>>,
      <<2620,2620>>, <<2625,2626>>, <<2631,2632>>, <<2635,2637>>, <<2641,2641>>,
      <<2672,2673>>, <<2677,2677>>, <<2689,2690>>, <<2748,2748>>, <<2753,2757>>,
      <<2759,2760>>, <<2765,2765>>, <<2786,2787>>, <<2810,2815>>, <<2817,2817>>,
      <<2876,2876>>, <<2879,2879>>, <<2881,2884>>, <<2893,2893>>, <<2901,2902>>,
      <<2914,2915>>, <<2946,2946>>, <<3008,3008>>, <<3021,3021>>, <<3072,3072>>,
      <<3076,3076>>, <<3132,3132>>, <<3134,3136>>, <<3142,3144>>, <<3146,3149>>,
      <<3157,3158>>, <<3170,3171>>, <<3201,3201>>, <<3260,3260>>, <<3263,3263>>,
      <<3270,3270>>, <<3276,3277>>, <<3298,3299>>, <<3328,3329>>, <<3387,3388>>,
      <<3393,3396>>, <<3405,3405>>, <<3426,3427>>, <<3457,3457>>, <<3530,3530>>,
      <<3538,3540>>, <<3542,3542>>, <<3633,3633>>, <<3636,3642>>, <<3654,3662>>,
      <<3761,3761>>, <<3764,3772>>, <<3782,3782>>, <<3784,3789>>, <<3864,3865>>,
      <<3893,3893>>, <<3895,3895>>, <<3897,3897>>, <<3953,3966>>, <<3968,3972>>,
      <<3974,3975>>, <<3981,3991>>, <<3993,4028>>, <<4038,4038>>, <<4141,4144>>,
      <<4146,4151>>, <<4153,4154>>, <<4157,4158>>, <<4184,4185>>, <<4190,4192>>,
      <<4209,4212>>, <<4226,4226>>, <<4229,4230>>, <<4237,4237>>, <<4253,4253>>,
      <<4348,4348>>, <<4957,4959>>, <<5906,5908>>, <<5938,5939>>, <<5970,5971>>,
      <<6002,6003>>, <<6068,6069>>, <<6071,6077>>, <<6086,6086>>, <<6089,6099>>,
      <<6103,6103>>, <<6109,6109>>, <<6155,6159>>, <<6211,6211>>, <<6277,6278>>,
      <<6313,6313>>, <<6432,6434>>, <<6439,6440>>, <<6450,6450>>, <<6457,6459>>,
      <<6679,6680>>, <<6683,6683>>, <<6742,6742>>, <<6744,6750>>, <<6752,6752>>,
      <<6754,6754>>, <<6757,6764>>, <<6771,6780>>, <<6783,6783>>, <<6823,6823>>,
      <<6832,6862>>, <<6912,6915>>, <<6964,6964>>, <<6966,6970>>, <<6972,6972>>,
      <<6978,6978>>, <<7019,7027>>, <<7040,7041>>, <<7074,7077>>, <<7080,7081>>,
      <<7083,7085>>, <<7142,7142>>, <<7144,7145>>, <<7149,7149>>, <<7151,7153>>,
      <<7212,7219>>, <<7222,7223>>, <<7288,7293>>, <<7376,7378>>, <<7380,7392>>,
      <<7394,7400>>, <<7405,7405>>, <<7412,7412>>, <<7416,7417>>, <<7468,7530>>,
      <<7544,7544>>, <<7579,7679>>, <<8125,8125>>, <<8127,8129>>, <<8141,8143>>,
      <<8157,8159>>, <<8173,8175>>, <<8189,8190>>, <<8203,8207>>, <<8216,8217>>,
      <<8228,8228>>, <<8231,8231>>, <<8234,8238>>, <<8288,8292>>, <<8294,8303>>,
      <<8305,8305>>, <<8319,8319>>, <<8336,8348>>, <<8400,8432>>, <<11388,11389>>,
      <<11503,11505>>, <<11631,11631>>, <<11647,11647>>, <<11744,11775>>, <<11823,11823>>,
      <<12293,12293>>, <<12330,12333>>, <<12337,12341>>, <<12347,12347>>, <<12441,12446>>,
      <<12540,12542>>, <<40981,40981>>, <<42232,42237>>, <<42508,42508>>, <<42607,42610>>,
      <<42612,42621>>, <<42623,42623>>, <<42652,42655>>, <<42736,42737>>, <<42752,42785>>,
      <<42864,42864>>, <<42888,42890>>, <<42994,42996>>, <<43000,43001>>, <<43010,43010>>,
      <<43014,43014>>, <<43019,43019>>, <<43045,43046>>, <<43052,43052>>, <<43204,43205>>,
      <<43232,43249>>, <<43263,43263>>, <<43302,43309>>, <<43335,43345>>, <<43392,43394>>,
      <<43443,43443>>, <<43446,43449>>, <<43452,43453>>, <<43471,43471>>, <<43493,43494>>,
      <<43561,43566>>, <<43569,43570>>, <<43573,43574>>, <<43587,43587>>, <<43596,43596>>,
      <<43632,43632>>, <<43644,43644>>, <<43696,43696>>, <<43698,43700>>, <<43703,43704>>,
      <<43710,43711>>, <<43713,43713>>, <<43741,43741>>, <<43756,43757>>, <<43763,43764>>,
      <<43766,43766>>, <<43867,43871>>, <<43881,43883>>, <<44005,44005>>, <<44008,44008>>,
      <<44013,44013>>, <<64286,64286>>, <<64434,64450>>, <<65024,65039>>, <<65043,65043>>,
      <<65056,65071>>, <<65106,65106>>, <<65109,65109>>, <<65279,65279>>, <<65287,65287>>,
      <<65294,65294>>, <<65306,65306>>, <<65342,65342>>, <<65344,65344>>, <<65392,65392>>,
      <<65438,65439>>, <<65507,65507>>, <<65529,65531>>, <<66045,66045>>, <<66272,66272>>,
      <<66422,66426>>, <<67456,67461>>, <<67463,67504>>, <<67506,67514>>, <<68097,68099>>,
      <<68101,68102>>, <<68108,68111>>, <<68152,68154>>, <<68159,68159>>, <<68325,68326>>,
      <<68900,68903>>, <<69291,69292>>, <<69446,69456>>, <<69506,69509>>, <<69633,69633>>,
      <<69688,69702>>, <<69744,69744>>, <<69747,69748>>, <<69759,69761>>, <<69811,69814>>,
      <<69817,69818>>, <<69821,69821>>, <<69826,69826>>, <<69837,69837>>, <<69888,69890>>,
      <<69927,69931>>, <<69933,69940>>, <<70003,70003>>, <<70016,70017>>, <<70070,70078>>,
      <<70089,70092>>, <<70095,70095>>, <<70191,70193>>, <<70196,70196>>, <<70198,70199>>,
      <<70206,70206>>, <<70367,70367>>, <<70371,70378>>, <<70400,70401>>, <<70459,70460>>,
      <<70464,70464>>, <<70502,70508>>, <<70512,70516>>, <<70712,70719>>, <<70722,70724>>,
      <<70726,70726>>, <<70750,70750>>, <<70835,70840>>, <<70842,70842>>, <<70847,70848>>,
      <<70850,70851>>, <<71090,71093>>, <<71100,71101>>, <<71103,71104>>, <<71132,71133>>,
      <<71219,71226>>, <<71229,71229>>, <<71231,71232>>, <<71339,71339>>, <<71341,71341>>,
      <<71344,71349>>, <<71351,71351>>, <<71453,71455>>, <<71458,71461>>, <<71463,71467>>,
      <<71727,71735>>, <<71737,71738>>, <<71995,71996>>, <<71998,71998>>, <<72003,72003>>,
      <<72148,72151>>, <<72154,72155>>, <<72160,72160>>, <<72193,72202>>, <<72243,72248>>,
      <<72251,72254>>, <<72263,72263>>, <<72273,72278>>, <<72281,72283>>, <<72330,72342>>,
      <<72344,72345>>, <<72752,72758>>, <<72760,72765>>, <<72767,72767>>, <<72850,72871>>,
      <<72874,72880>>, <<72882,72883>>, <<72885,72886>>, <<73009,73014>>, <<73018,73018>>,
      <<73020,73021>>, <<73023,73029>>, <<73031,73031>>, <<73104,73105>>, <<73109,73109>>,
      <<73111,73111>>, <<73459,73460>>, <<78896,78904>>, <<92912,92916>>, <<92976,92982>>,
      <<92992,92995>>, <<94031,94031>>, <<94095,94111>>, <<94176,94177>>, <<94179,94180>>,
      <<110576,110579>>, <<110581,110587>>, <<110589,110590>>, <<113821,113822>>, <<113824,113827>>,
      <<118528,118573>>, <<118576,118598>>, <<119143,119145>>, <<119155,119170>>, <<119173,119179>>,
      <<119210,119213>>, <<119362,119364>>, <<121344,121398>>, <<121403,121452>>, <<121461,121461>>,
      <<121476,121476>>, <<121499,121503>>, <<121505,121519>>, <<122880,122886>>, <<122888,122904>>,
      <<122907,122913>>, <<122915,122916>>, <<122918,122922>>, <<123184,123197>>, <<123566,123566>>,
      <<123628,123631>>, <<125136,125142>>, <<125252,125259>>, <<127995,127999>>, <<917505,917505>>,
      <<917536,917631>>, <<917760,917999>>
    >>

\* The code points with the Unicode property Cased, as ranges.
CasedRanges ==
    <<
      <<65,90>>, <<97,122>>, <<170,170>>, <<181,181>>, <<186,186>>,
      <<192,214>>, <<216,246>>, <<248,442>>, <<444,447>>, <<452,659>>,
      <<661,696>>, <<704,705>>, <<736,740>>, <<837,837>>, <<880,883>>,
      <<886,887>>, <<890,893>>, <<895,895>>, <<902,902>>, <<904,906>>,
      <<908,908>>, <<910,929>>, <<931,1013>>, <<1015,1153>>, <<1162,1327>>,
      <<1329,1366>>, <<1376,1416>>, <<4256,4293>>, <<4295,4295>>, <<4301,4301>>,
      <<4304,4346>>, <<4349,4351>>, <<5024,5109>>, <<5112,5117>>, <<7296,7304>>,
      <<7312,7354>>, <<7357,7359>>, <<7424,7615>>, <<7680,7957>>, <<7960,7965>>,
      <<7968,8005>>, <<8008,8013>>, <<8016,8023>>, <<8025,8025>>, <<8027,8027>>,
      <<8029,8029>>, <<8031,8061>>, <<8064,8116>>, <<8118,8124>>, <<8126,8126>>,
      <<8130,8132>>, <<8134,8140>>, <<8144,8147>>, <<8150,8155>>, <<8160,8172>>,
      <<8178,8180>>, <<8182,8188>>, <<8305,8305>>, <<8319,8319>>, <<8336,8348>>,
      <<8450,8450>>, <<8455,8455>>, <<8458,8467>>, <<8469,8469>>, <<8473,8477>>,
      <<8484,8484>>, <<8486,8486>>, <<8488,8488>>, <<8490,8493>>, <<8495,8500>>,
      <<8505,8505>>, <<8508,8511>>, <<8517,8521>>, <<8526,8526>>, <<8544,8575>>,
      <<8579,8580>>, <<9398,9449>>, <<11264,11492>>, <<11499,11502>>, <<11506,11507>>,
      <<11520,11557>>, <<11559,11559>>, <<11565,11565>>, <<42560,42605>>, <<42624,42653>>,
      <<42786,42887>>, <<42891,42894>>, <<42896,42954>>, <<42960,42961>>, <<42963,42963>>,
      <<42965,42969>>, <<42997,42998>>, <<43000,43002>>, <<43824,43866>>, <<43868,43880>>,
      <<43888,43967>>, <<64256,64262>>, <<64275,64279>>, <<65313,65338>>, <<65345,65370>>,
      <<66560,66639>>, <<66736,66771>>, <<66776,66811>>, <<66928,66938>>, <<66940,66954>>,
      <<66956,66962>>, <<66964,66965>>, <<66967,66977>>, <<66979,66993>>, <<66995,67001>>,
      <<67003,67004>>, <<67456,67456>>, <<67459,67461>>, <<67463,67504>>, <<67506,67514>>,
      <<68736,68786>>, <<68800,68850>>, <<71840,71903>>, <<93760,93823>>, <<119808,119892>>,
      <<119894,119964>>, <<119966,119967>>, <<119970,119970>>, <<119973,119974>>, <<119977,119980>>,
      <<119982,119993>>, <<119995,119995>>, <<119997,120003>>, <<120005,120069>>, <<120071,120074>>,
      <<120077,120084>>, <<120086,120092>>, <<120094,120121>>, <<120123,120126>>, <<120128,120132>>,
      <<120134,120134>>, <<120138,120144>>, <<120146,120485>>, <<120488,120512>>, <<120514,120538>>,
      <<120540,120570>>, <<120572,120596>>, <<120598,120628>>, <<120630,120654>>, <<120656,120686>>,
      <<120688,120712>>, <<120714,120744>>, <<120746,120770>>, <<120772,120779>>, <<122624,122633>>,
      <<122635,122654>>, <<125184,125251>>, <<127280,127305>>, <<127312,127337>>, <<127344,127369>>
    >>

IsCaseIgnorable(c) == InRanges(c, CaseIgnorableRanges)

IsCased(c) == InRanges(c, CasedRanges)

\* the capital sigma at position i of s ends a word: a cased character comes
\* before it, and none after it, case-ignorable characters skipped
InFinalSigmaContext(s, i) ==
    /\ \E j \in 1..(i - 1) :
          /\ ~IsCaseIgnorable(s[j]) /\ IsCased(s[j])
          /\ \A k \in (j + 1)..(i - 1) : IsCaseIgnorable(s[k])
    /\ ~\E j \in (i + 1)..Len(s) :
          /\ ~IsCaseIgnorable(s[j]) /\ IsCased(s[j])
          /\ \A k \in (i + 1)..(j - 1) : IsCaseIgnorable(s[k])

\* the characters of s.lower() from position i of s on
RECURSIVE LowerFrom(_, _)
LowerFrom(s, i) ==
    IF i > Len(s) THEN <<>>
    ELSE (IF s[i] = CapitalSigma
          THEN <<IF InFinalSigmaContext(s, i) THEN FinalSmallSigma ELSE SmallSigma>>
          ELSE LowerChar(s[i]))
         \o LowerFrom(s, i + 1)

\* str.lower()
LowerStr(s) == LowerFrom(s, 1)

\* the f-string "{a} {b}"
SpaceJoin(a, b) == a \o <<Space>> \o b

\* `a in b` for two str: a is a substring of b
IsSubstring(a, b) ==
    \E k \in 0..(Len(b) - Len(a)) :
        \A i \in 1..Len(a) : b[k + i] = a[i]

\* the pieces of s between the positions in cuts (each cut character dropped)
RECURSIVE PiecesFrom(_, _, _)
PiecesFrom(s, cuts, from) ==
    IF \E c \in cuts : c >= from
    THEN LET c == CHOOSE x \in cuts : x >= from /\ \A y \in cuts : y >= from => x <= y
         IN  <<SubSeq(s, from, c - 1)>> \o PiecesFrom(s, cuts, c + 1)
    ELSE <<SubSeq(s, from, Len(s))>>

\* str.split(sep) for a one-character sep: empty pieces are kept
SplitOn(s, sep) == PiecesFrom(s, {i \in 1..Len(s) : s[i] = sep}, 1)

\* str.split(): cut at whitespace, empty pieces dropped
SplitWords(s) ==
    SelectSeq(PiecesFrom(s, {i \in 1..Len(s) : IsSpace(s[i])}, 1),
              LAMBDA p : p # <<>>)

-----------------------------------------------------------------------------
(* _split_by_sentences *)

\* (?<=\.|\?|\n) at the position before text[i]
AfterTerminator(t, i) == i > 1 /\ t[i - 1] \in {Dot, QuestionMark, Newline}

\* (?<!\w\.\w.) fails: the four characters before text[i] are word character,
\* '.', word character, any character but a newline (the last dot is unescaped)
AfterDottedAbbrev(t, i) ==
    /\ i > 4
    /\ IsWordChar(t[i - 4])
    /\ t[i - 3] = Dot
    /\ IsWordChar(t[i - 2])
    /\ t[i - 1] # Newline

\* (?<![A-Z][a-z]\.) fails: the three characters before text[i] are capital,
\* lowercase, '.'
AfterTitleAbbrev(t, i) ==
    /\ i > 3
    /\ t[i - 3] \in UpperChars
    /\ t[i - 2] \in LowerChars
    /\ t[i - 1] = Dot

\* SplitPoints with the three lookbehinds lost: the pattern is `\s` alone
SplitPointsAnyWhitespace(t) == {i \in 1..Len(t) : IsSpace(t[i])}

\* the positions the regular expression matches
SplitPoints(t) ==
    {i \in 1..Len(t) :
        /\ IsSpace(t[i])
        /\ AfterTerminator(t, i)
        /\ ~AfterDottedAbbrev(t, i)
        /\ ~AfterTitleAbbrev(t, i)}

\* re.split(pattern, text)
SplitBySentences(t) == PiecesFrom(t, SplitPoints(t), 1)

-----------------------------------------------------------------------------
(* PRONOUNS *)

he   == Str(<<"h","e">>)
she  == Str(<<"s","h","e">>)
they == Str(<<"t","h","e","y">>)
it   == Str(<<"i","t">>)

BasePronouns ==
    {Str(<<"I">>), Str(<<"y","o","u">>), he, she, Str(<<"w","e">>), they, it}

permutation_pronouns == <<he, she, they, it>>

\* "/".join(words)
RECURSIVE JoinSlash(_)
JoinSlash(words) ==
    IF Len(words) = 0 THEN <<>>
    ELSE IF Len(words) = 1 THEN words[1]
    ELSE words[1] \o <<Slash>> \o JoinSlash(Tail(words))

\* itertools.permutations(permutation_pronouns, k), each joined with "/"
CombinedPermutations(k) ==
    {JoinSlash([i \in 1..k |-> permutation_pronouns[f[i]]]) :
        f \in {g \in [1..k -> 1..Len(permutation_pronouns)] :
                  \A i, j \in 1..k : i # j => g[i] # g[j]}}

\* PRONOUNS once the module is imported
ImportedPronouns ==
    BasePronouns
      \cup UNION {CombinedPermutations(k) : k \in 2..Len(permutation_pronouns)}

\* IsPronoun without the lower(): `subject not in PRONOUNS`
IsPronounCaseSensitive(token, catalog) == token \in catalog

\* `subject.lower() not in PRONOUNS`, negated
IsPronoun(token, catalog) == LowerStr(token) \in catalog

-----------------------------------------------------------------------------
(* SubjectVerbPair and _detect_subject_and_verb *)

SubjectVerbPair(subject, verb, is_question) ==
    [subject |-> subject, verb |-> verb, is_question |-> is_question]

\* SubjectVerbPair.phrase
Phrase(pair) ==
    IF pair.is_question
    THEN SpaceJoin(pair.verb, pair.subject)
    ELSE SpaceJoin(pair.subject, pair.verb)

\* `sentence[-1] == "?"`; the caller has checked that the sentence is not empty
IsQuestion(sentence) == sentence[Len(sentence)] = QuestionMark

\* 1-based position of `words[index - 1] if is_question else words[index + 1]`
\* for the word at 1-based position i of n words; 0 stands for IndexError.
\* A Python index of -1 is the last word.
VerbPosition(i, n, is_question) ==
    IF is_question
    THEN (IF i = 1 THEN n ELSE i - 1)
    ELSE (IF i = n THEN 0 ELSE i + 1)

Detected(kind, pairs) == [kind |-> kind, pairs |-> pairs, value |-> {}]

\* the for-loop of _detect_subject_and_verb from position i on, and its end
RECURSIVE PairingsFrom(_, _, _, _, _)
PairingsFrom(words, i, is_question, catalog, pairings) ==
    IF i > Len(words)
    THEN (IF pairings # <<>>
          THEN Detected("ok", pairings)
          ELSE Detected("ValueError", <<>>))
    ELSE IF ~IsPronoun(words[i], catalog)
    THEN PairingsFrom(words, i + 1, is_question, catalog, pairings)
    ELSE LET v == VerbPosition(i, Len(words), is_question)
         IN  IF v = 0
             THEN Detected("IndexError", <<>>)
             ELSE PairingsFrom(words, i + 1, is_question, catalog,
                      Append(pairings,
                             SubjectVerbPair(words[i], words[v], is_question)))

\* _detect_subject_and_verb(sentence)
DetectSubjectAndVerb(sentence, catalog) ==
    IF Len(sentence) = 0
    THEN Detected("IndexError", <<>>)
    ELSE PairingsFrom(SplitWords(sentence), 1, IsQuestion(sentence), catalog, <<>>)

-----------------------------------------------------------------------------
(* The conjugation oracle: mlconjug3.Conjugator.conjugate, a fixed function *)
(* from a verb form to the set of its conjugated strings.                  *)

BeForms ==
    {Str(<<"I"," ","a","m">>),
     Str(<<"y","o","u"," ","a","r","e">>),
     Str(<<"h","e","/","s","h","e","/","i","t"," ","i","s">>),
     Str(<<"w","e"," ","a","r","e">>),
     Str(<<"t","h","e","y"," ","a","r","e">>)}

\* the verb forms the oracle knows
BeVerbs == {Str(<<"i","s">>), Str(<<"a","r","e">>)}

\* the forms of a verb the oracle knows, none for any other string
Conjugate(verb) ==
    IF LowerStr(verb) \in BeVerbs
    THEN BeForms
    ELSE {}

\* `phrase in verb` for a conjugated verb: the phrase occurs in one of its forms
InConjugated(phrase, forms) == \E f \in forms : IsSubstring(phrase, f)

-----------------------------------------------------------------------------
(* find_faulty_conjugation *)

\* `if subject.lower() in ("he", "she", "it"): subject = "he/she/it"`, lowered
NormalizedSubject(subject) ==
    IF LowerStr(subject) \in {he, she, it}
    THEN JoinSlash(<<he, she, it>>)
    ELSE LowerStr(subject)

\* the list `phrases` for one subject token
CandidatePhrases(subject, verbs) ==
    [k \in 1..Len(verbs) |->
        SpaceJoin(NormalizedSubject(subject), LowerStr(verbs[k]))]

\* the `any(...)` over verb_conjugators and phrases
AnyMatch(phrases, verb_conjugators) ==
    \E c \in 1..Len(verb_conjugators) : \E p \in 1..Len(phrases) :
        InConjugated(phrases[p], verb_conjugators[c])

\* the loop over the subject tokens from position i on: TRUE when it adds the
\* pair's phrase (and breaks)
RECURSIVE SubjectLoop(_, _, _, _)
SubjectLoop(subjects, i, verbs, verb_conjugators) ==
    IF i > Len(subjects) THEN FALSE
    ELSE IF ~AnyMatch(CandidatePhrases(subjects[i], verbs), verb_conjugators)
    THEN TRUE
    ELSE SubjectLoop(subjects, i + 1, verbs, verb_conjugators)

\* AddsPhrase with the loop over the subject tokens left after the first token
AddsPhraseFirstSubjectOnly(pair) ==
    LET verbs == SplitOn(pair.verb, Slash)
        verb_conjugators == [k \in 1..Len(verbs) |-> Conjugate(verbs[k])]
        subjects == SplitOn(pair.subject, Slash)
    IN  ~AnyMatch(CandidatePhrases(subjects[1], verbs), verb_conjugators)

\* AddsPhrase with a `continue` for a pair one of whose verb forms has no
\* conjugated form
AddsPhraseSkippingUnconjugated(pair) ==
    LET verbs == SplitOn(pair.verb, Slash)
        verb_conjugators == [k \in 1..Len(verbs) |-> Conjugate(verbs[k])]
    IN  /\ \A k \in 1..Len(verbs) : verb_conjugators[k] # {}
        /\ SubjectLoop(SplitOn(pair.subject, Slash), 1, verbs, verb_conjugators)

\* AddsPhrase with every verb form required to match: an empty verb form
\* makes the pair faulty
AddsPhraseEmptyFormFaulty(pair) ==
    LET verbs == SplitOn(pair.verb, Slash)
        verb_conjugators == [k \in 1..Len(verbs) |-> Conjugate(verbs[k])]
    IN  \/ \E k \in 1..Len(verbs) : verbs[k] = <<>>
        \/ SubjectLoop(SplitOn(pair.subject, Slash), 1, verbs, verb_conjugators)

\* whether the body of `for sub_verbs in subject_verb` adds sub_verbs.phrase
AddsPhrase(pair) ==
    LET verbs == SplitOn(pair.verb, Slash)
        verb_conjugators == [k \in 1..Len(verbs) |-> Conjugate(verbs[k])]
    IN  SubjectLoop(SplitOn(pair.subject, Slash), 1, verbs, verb_conjugators)

\* faulty_conjugations after the pairs of one sentence
FaultyAfter(found, pairs) ==
    found \cup {Phrase(pairs[k]) : k \in {j \in 1..Len(pairs) : AddsPhrase(pairs[j])}}

NoOutcome == [kind |-> "none", pairs |-> <<>>, value |-> {}]
Returned(set) == [kind |-> "set", pairs |-> <<>>, value |-> set]
Raised(kind) == [kind |-> kind, pairs |-> <<>>, value |-> {}]

-----------------------------------------------------------------------------
(* Inputs *)

\* " ".join(words)
RECURSIVE JoinWords(_)
JoinWords(words) ==
    IF Len(words) = 0 THEN <<>>
    ELSE IF Len(words) = 1 THEN words[1]
    ELSE words[1] \o <<Space>> \o JoinWords(Tail(words))

\* the texts of at most n words of vocabulary V, separated by one space
WordTexts(V, n) ==
    {JoinWords(ws) : ws \in UNION {[1..k -> V] : k \in 0..n}}

\* the texts of at most n characters of alphabet A
CharTexts(A, n) == UNION {[1..k -> A] : k \in 0..n}

\* a, A, a capital A with acute (193), ".", "?", newline, space, vertical tab (11)
SplitAlphabet ==
    {Ord("a"), Ord("A"), 193, Dot, QuestionMark, Newline, Space, 11}

SplitTexts == CharTexts(SplitAlphabet, MaxTextLen)

SentenceVocabulary ==
    {Str(<<"I">>), Str(<<"H","e">>), they, Str(<<"S","h","e","/","I","t">>),
     <<CapitalIWithDot, Ord("t")>>, <<11>>, Str(<<"i","s">>), Str(<<"x","?">>), Str(<<"?">>)}

Sentences == WordTexts(SentenceVocabulary, MaxSentenceWords)

TextVocabulary ==
    {Str(<<"H","e">>), they, Str(<<"h","e","/","t","h","e","y">>),
     Str(<<"i","s">>), Str(<<"A","r","e">>), Str(<<"i","s","/">>), Str(<<"x","/">>), Str(<<"x","/","i","s">>), Str(<<"x",".">>),
     Str(<<"?">>)}

Texts == WordTexts(TextVocabulary, MaxWords)

RepeatVocabulary == {Str(<<"H","e">>), they, Str(<<"a","r","e">>), Str(<<"x",".">>)}

RepeatTexts == WordTexts(RepeatVocabulary, MaxRepeatWords)

-----------------------------------------------------------------------------
(* The state machine *)

Init ==
    /\ PRONOUNS = ImportedPronouns
    /\ text = <<>>
    /\ pc = "idle"
    /\ sentences = <<>>
    /\ idx = 0
    /\ faulty = {}
    /\ outcome = NoOutcome
    /\ calls = 0
    /\ firstText = <<>>
    /\ firstOutcome = NoOutcome

\* a direct call of the static method _split_by_sentences(t)
RunSplit(t) ==
    /\ pc = "idle"
    /\ text' = t
    /\ sentences' = SplitBySentences(t)
    /\ pc' = "split"
    /\ UNCHANGED <<PRONOUNS, idx, faulty, outcome, calls, firstText, firstOutcome>>

\* a direct call of the static method _detect_subject_and_verb(s)
RunDetect(s) ==
    /\ pc = "idle"
    /\ text' = s
    /\ outcome' = DetectSubjectAndVerb(s, PRONOUNS)
    /\ pc' = "detected"
    /\ UNCHANGED <<PRONOUNS, sentences, idx, faulty, calls, firstText, firstOutcome>>

\* Call with faulty_conjugations kept from the call before
CallKeepingFaulty(t) ==
    /\ pc \in {"idle", "returned", "raised"}
    /\ text' = t
    /\ sentences' = SplitBySentences(t)
    /\ idx' = 1
    /\ outcome' = NoOutcome
    /\ calls' = calls + 1
    /\ pc' = "loop"
    /\ UNCHANGED <<PRONOUNS, faulty, firstText, firstOutcome>>

\* find_faulty_conjugation(t) up to the first iteration of `for sentence`
Call(t) ==
    /\ pc \in {"idle", "returned", "raised"}
    /\ text' = t
    /\ sentences' = SplitBySentences(t)
    /\ faulty' = {}
    /\ idx' = 1
    /\ outcome' = NoOutcome
    /\ calls' = calls + 1
    /\ pc' = "loop"
    /\ UNCHANGED <<PRONOUNS, firstText, firstOutcome>>

\* what a finished call leaves for later comparison: the first call is kept
Finish(result) ==
    /\ outcome' = result
    /\ firstText' = IF calls = 1 THEN text ELSE firstText
    /\ firstOutcome' = IF calls = 1 THEN result ELSE firstOutcome

\* one iteration of `for sentence in sentences`
ProcessSentence ==
    /\ pc = "loop"
    /\ idx <= Len(sentences)
    /\ LET subject_verb == DetectSubjectAndVerb(sentences[idx], PRONOUNS)
       IN  IF subject_verb.kind = "ok"
           THEN /\ faulty' = FaultyAfter(faulty, subject_verb.pairs)
                /\ idx' = idx + 1
                /\ UNCHANGED <<pc, outcome, firstText, firstOutcome>>
           ELSE /\ pc' = "raised"
                /\ Finish(Raised(subject_verb.kind))
                /\ UNCHANGED <<faulty, idx>>
    /\ UNCHANGED <<PRONOUNS, text, sentences, calls>>

\* `return faulty_conjugations`
Return ==
    /\ pc = "loop"
    /\ idx > Len(sentences)
    /\ pc' = "returned"
    /\ Finish(Returned(faulty))
    /\ UNCHANGED <<PRONOUNS, text, sentences, idx, faulty, calls>>

\* one call of find_faulty_conjugation on any text
Next ==
    \/ calls = 0 /\ \E t \in Texts : Call(t)
    \/ ProcessSentence
    \/ Return

Spec == Init /\ [][Next]_vars

\* a sequence of calls of find_faulty_conjugation
NextRepeat ==
    \/ pc # "loop" /\ calls < MaxCalls /\ \E t \in RepeatTexts : Call(t)
    \/ ProcessSentence
    \/ Return

SpecRepeat == Init /\ [][NextRepeat]_vars

\* one call of _split_by_sentences
NextSplit == pc = "idle" /\ \E t \in SplitTexts : RunSplit(t)

SpecSplit == Init /\ [][NextSplit]_vars

\* one call of _detect_subject_and_verb
NextDetect == pc = "idle" /\ \E s \in Sentences : RunDetect(s)

SpecDetect == Init /\ [][NextDetect]_vars

-----------------------------------------------------------------------------
(* Properties of _split_by_sentences (SpecSplit) *)

HasTerminalPunctuation(t) == \E i \in 1..Len(t) : t[i] \in {Dot, QuestionMark}

NewlineBeforeSpace(t) ==
    \E i \in 1..(Len(t) - 1) : t[i] = Newline /\ IsSpace(t[i + 1])

\* C6 as stated: a text without '.' and '?' comes back as one sentence equal
\* to the text, whatever whitespace or line breaks it contains.
C6_Original ==
    (pc = "split" /\ ~HasTerminalPunctuation(text)) => sentences = <<text>>

\* C6 as amended: a text without '.' and '?' and without a newline that is
\* immediately followed by a whitespace character comes back as one sentence
\* equal to the text.
C6_OneSentence ==
    (pc = "split" /\ ~HasTerminalPunctuation(text) /\ ~NewlineBeforeSpace(text))
        => sentences = <<text>>

\* a text with whitespace and a line break that is still one sentence
C6_Witness ==
    /\ pc = "split"
    /\ ~HasTerminalPunctuation(text)
    /\ ~NewlineBeforeSpace(text)
    /\ \E i \in 1..Len(text) : text[i] = Space
    /\ \E i \in 1..Len(text) : text[i] = Newline
    /\ sentences = <<text>>

\* the boundaries C9 describes: whitespace after '.', '?' or newline, unless
\* the four characters before it are word character, '.', word character, '.'
\* or the three before it are capital, lowercase, '.'
C9_Boundaries(t) ==
    {i \in 1..Len(t) :
        /\ IsSpace(t[i])
        /\ i > 1 /\ t[i - 1] \in {Dot, QuestionMark, Newline}
        /\ ~(/\ i > 4
             /\ IsWordChar(t[i - 4]) /\ t[i - 3] = Dot
             /\ IsWordChar(t[i - 2]) /\ t[i - 1] = Dot)
        /\ ~(/\ i > 3
             /\ t[i - 3] \in UpperChars /\ t[i - 2] \in LowerChars
             /\ t[i - 1] = Dot)}

\* C9: the text is cut at exactly the boundaries C9 describes.
C9_CutsAtDescribedBoundaries ==
    pc = "split" => sentences = PiecesFrom(text, C9_Boundaries(text), 1)

-----------------------------------------------------------------------------
(* Properties of _detect_subject_and_verb (SpecDetect) *)

\* the positions of the words whose lowercase form is in the catalog
CatalogPositions(words) ==
    {i \in 1..Len(words) : LowerStr(words[i]) \in PRONOUNS}

\* the k-th smallest element of a set of positions
KthPosition(P, k) == CHOOSE i \in P : Cardinality({j \in P : j <= i}) = k

\* C3: every returned pair has a catalog word as subject and, as verb, the
\* word just before it in a question and just after it otherwise; the
\* neighbouring word always exists.
C3_VerbAdjacent ==
    (pc = "detected" /\ outcome.kind = "ok") =>
        LET words == SplitWords(text)
            P == CatalogPositions(words)
        IN  \A k \in 1..Len(outcome.pairs) :
                /\ k <= Cardinality(P)
                /\ LET i == KthPosition(P, k)
                       v == IF text[Len(text)] = QuestionMark THEN i - 1 ELSE i + 1
                   IN  /\ outcome.pairs[k].subject = words[i]
                       /\ v \in 1..Len(words)
                       /\ outcome.pairs[k].verb = words[v]

\* the words C4 says are recognized: lowercase equal to the lowercase of a
\* base pronoun or of a "/"-joined permutation of he, she, they, it
C4_Recognizable(token) ==
    LowerStr(token) \in {LowerStr(p) : p \in ImportedPronouns}

\* C4: every word of a sentence whose lowercase form equals the lowercase
\* form of a base pronoun or of a permutation passes the membership test of
\* the extractor, so a sentence with such a word never lacks a subject.
C4_CaseInsensitiveMembership ==
    pc = "detected" =>
        /\ \A w \in {SplitWords(text)[i] : i \in 1..Len(SplitWords(text))} :
               C4_Recognizable(w) => IsPronoun(w, PRONOUNS)
        /\ outcome.kind = "ValueError" =>
               \A i \in 1..Len(SplitWords(text)) :
                   ~C4_Recognizable(SplitWords(text)[i])

\* C5: a successful extraction returns one pair per word whose lowercase
\* form is in the catalog, in the order of those words, each flagged as a
\* question exactly when the sentence ends in '?'.
C5_OnePairPerPronounInOrder ==
    (pc = "detected" /\ outcome.kind = "ok") =>
        LET words == SplitWords(text)
            P == CatalogPositions(words)
        IN  /\ Len(outcome.pairs) = Cardinality(P)
            /\ \A k \in 1..Len(outcome.pairs) :
                   /\ outcome.pairs[k].subject = words[KthPosition(P, k)]
                   /\ outcome.pairs[k].is_question = (text[Len(text)] = QuestionMark)

\* a successful extraction of two pairs from a sentence that also has a word
\* outside the catalog
C5_Witness ==
    /\ pc = "detected"
    /\ outcome.kind = "ok"
    /\ Len(outcome.pairs) = 2
    /\ Len(SplitWords(text)) = 3

-----------------------------------------------------------------------------
(* Properties of find_faulty_conjugation (Spec, SpecRepeat) *)

\* the pairs extracted from all the sentences of the text
ExtractedPairs ==
    UNION {
        LET d == DetectSubjectAndVerb(sentences[s], PRONOUNS)
        IN  {d.pairs[k] : k \in 1..Len(d.pairs)} : s \in 1..Len(sentences)}

Forms(token) ==
    LET parts == SplitOn(token, Slash) IN {parts[k] : k \in 1..Len(parts)}

\* subject token t of the pair has a candidate "<norm(t)> <v>", v one of the
\* verb forms in vs, that occurs in a conjugated form of a verb form in ws
HasMatch(t, vs, ws) ==
    \E v \in vs : \E w \in ws :
        \E f \in Conjugate(w) :
            IsSubstring(SpaceJoin(NormalizedSubject(t), LowerStr(v)), f)

\* C1: a call that returns gives exactly the phrases of the extracted pairs
\* that have a subject token none of whose candidates occurs in a conjugated
\* form of any verb form of the pair.
C1_ExactlyTheFaultyPhrases ==
    pc = "returned" =>
        outcome.value =
            {Phrase(p) : p \in {q \in ExtractedPairs :
                \E t \in Forms(q.subject) :
                    ~HasMatch(t, Forms(q.verb), Forms(q.verb))}}

\* a returned call that reports a compound subject whose first token agrees
\* with the verb and whose second token does not
C1_Witness ==
    /\ pc = "returned"
    /\ \E q \in ExtractedPairs :
          /\ Len(SplitOn(q.subject, Slash)) = 2
          /\ HasMatch(SplitOn(q.subject, Slash)[1], Forms(q.verb), Forms(q.verb))
          /\ ~HasMatch(SplitOn(q.subject, Slash)[2], Forms(q.verb), Forms(q.verb))
          /\ Phrase(q) \in outcome.value
    /\ \E q \in ExtractedPairs : Phrase(q) \notin outcome.value

HasNoCatalogWord(sentence) ==
    \A w \in {SplitWords(sentence)[i] : i \in 1..Len(SplitWords(sentence))} :
        LowerStr(w) \notin PRONOUNS

\* C2: a call on a text one of whose sentences (an empty one included) has no
\* word in the catalog ends with the ValueError "No subject found.".
C2_NoSubjectIsValueError ==
    (/\ pc \in {"returned", "raised"}
     /\ \E s \in 1..Len(sentences) : HasNoCatalogWord(sentences[s]))
        => outcome.kind = "ValueError"

\* C7: the catalog keeps its value of import time, and a finished call on the
\* text of the first call has the outcome of the first call.
C7_NoStateCarriedOver ==
    /\ PRONOUNS = ImportedPronouns
    /\ (pc \in {"returned", "raised"} /\ text = firstText)
           => outcome = firstOutcome

\* a third call, on the text of the first call, returns the phrases the first
\* call returned
C7_Witness ==
    /\ calls = 3
    /\ pc = "returned"
    /\ text = firstText
    /\ outcome.value # {}
    /\ faulty = outcome.value
    /\ outcome = firstOutcome

\* the verb forms of the pair the oracle has no conjugated form for
Unconjugated(q) == {u \in Forms(q.verb) : Conjugate(u) = {}}

\* C8: a verb form without conjugated forms neither makes the call fail (a
\* call fails only where the extraction of a sentence fails) nor hides the
\* pair: when, for some subject token, no candidate occurs in a conjugated
\* form of the other verb forms, the phrase is returned.
C8_UnconjugatedIsNoMatch ==
    /\ pc = "raised" =>
           /\ idx \in 1..Len(sentences)
           /\ DetectSubjectAndVerb(sentences[idx], PRONOUNS).kind = outcome.kind
           /\ outcome.kind \in {"ValueError", "IndexError"}
    /\ pc = "returned" =>
           \A q \in ExtractedPairs :
               (/\ Unconjugated(q) # {}
                /\ \E t \in Forms(q.subject) :
                       ~HasMatch(t, Forms(q.verb), Forms(q.verb) \ Unconjugated(q)))
                   => Phrase(q) \in outcome.value

\* a returned call with a pair that has a verb form without conjugated forms
\* next to one with conjugated forms, and whose phrase is returned
C8_Witness ==
    /\ pc = "returned"
    /\ \E q \in ExtractedPairs :
          /\ Unconjugated(q) # {}
          /\ Forms(q.verb) \ Unconjugated(q) # {}
          /\ Phrase(q) \in outcome.value

EndsInSlash(token) == Len(token) > 0 /\ token[Len(token)] = Slash

\* C10 as stated: every extracted pair whose subject or verb ends in a bare
\* "/" has its phrase returned.
C10_Original ==
    pc = "returned" =>
        \A q \in ExtractedPairs :
            (EndsInSlash(q.subject) \/ EndsInSlash(q.verb))
                => Phrase(q) \in outcome.value

\* C10 as amended: no extracted subject ends in "/"; a verb ending in "/"
\* has an extra empty verb form without conjugated forms; the phrase of such
\* a pair is returned when some subject token has no candidate, the one of
\* the empty form included, that occurs in a conjugated form of the pair's
\* verb forms, and is not returned when every subject token agrees with one
\* of the pair's non-empty verb forms.
C10_EmptyFormAloneIsNotFaulty ==
    pc = "returned" =>
        \A q \in ExtractedPairs :
            /\ ~EndsInSlash(q.subject)
            /\ EndsInSlash(q.verb) =>
                  /\ <<>> \in Unconjugated(q)
                  /\ (\E t \in Forms(q.subject) :
                          ~HasMatch(t, Forms(q.verb), Forms(q.verb)))
                        => Phrase(q) \in outcome.value
                  /\ (\A t \in Forms(q.subject) :
                          HasMatch(t, Forms(q.verb) \ {<<>>}, Forms(q.verb)))
                        => Phrase(q) \notin outcome.value

\* a returned call with a pair whose verb ends in "/" and agrees with the
\* subject, not returned, and one whose verb ends in "/" that is returned
C10_Witness ==
    /\ pc = "returned"
    /\ \E q \in ExtractedPairs :
          /\ EndsInSlash(q.verb)
          /\ \A t \in Forms(q.subject) :
                 HasMatch(t, Forms(q.verb) \ {<<>>}, Forms(q.verb))
          /\ Phrase(q) \notin outcome.value
    /\ \E q \in ExtractedPairs :
          /\ EndsInSlash(q.verb)
          /\ Phrase(q) \in outcome.value

=============================================================================
